---- MODULE Spec2Model ----
(***************************************************************************)
(* Model of the demo-script generation route (POST /api/generate-script)   *)
(* of Demo-Script: request validation, provider dispatch, the three        *)
(* provider adapters, the mock generator, prompt construction and the      *)
(* regex-based response parser.                                            *)
(*                                                                         *)
(* Texts are TLA+ strings; a character is a string of length one.          *)
(* JavaScript values of request fields and environment variables are       *)
(* records [t, v]: t is the typeof tag, v the value written as a string.   *)
(***************************************************************************)
EXTENDS Integers, Sequences, FiniteSets

(***************************************************************************)
(* JavaScript values                                                       *)
(***************************************************************************)
Undef == [t |-> "undefined", v |-> ""]

Str(s) == [t |-> "string", v |-> s]

Num(d) == [t |-> "number", v |-> d]

\* ToBoolean: undefined, "" and 0 are falsy.
Truthy(x) ==
    CASE x.t = "undefined" -> FALSE
      [] x.t = "string"    -> x.v # ""
      [] x.t = "number"    -> x.v \notin {"0", "NaN"}

\* ToString, as applied by template-literal interpolation ${x}.
ToString(x) == IF x.t = "undefined" THEN "undefined" ELSE x.v

\* a || b on a value a and a string default b, interpolated.
OrDefault(x, d) == IF Truthy(x) THEN ToString(x) ELSE d

(***************************************************************************)
(* String primitives                                                       *)
(***************************************************************************)
CharAt(s, i) == SubSeq(s, i, i)

UpperChars == "ABCDEFGHIJKLMNOPQRSTUVWXYZ"

LowerChars == "abcdefghijklmnopqrstuvwxyz"

ToLowerMap ==
    [c \in {CharAt(UpperChars, k) : k \in 1..26} |->
        CharAt(LowerChars, CHOOSE k \in 1..26 : CharAt(UpperChars, k) = c)]

ToUpperMap ==
    [c \in {CharAt(LowerChars, k) : k \in 1..26} |->
        CharAt(UpperChars, CHOOSE k \in 1..26 : CharAt(LowerChars, k) = c)]

toLowerChar(c) == IF c \in DOMAIN ToLowerMap THEN ToLowerMap[c] ELSE c

\* Canonicalize of a case-insensitive (/i) regular expression: upper-casing.
Canonicalize(c) == IF c \in DOMAIN ToUpperMap THEN ToUpperMap[c] ELSE c

RECURSIVE toLowerCase(_)
toLowerCase(s) ==
    IF s = "" THEN ""
    ELSE toLowerChar(CharAt(s, 1)) \o toLowerCase(SubSeq(s, 2, Len(s)))

\* The regex class \s, which is also what String.prototype.trim strips.
IsWhiteSpace(c) == c \in {" ", "\t", "\n", "\r", "\f"}

\* String.prototype.includes
includes(s, sub) ==
    \E i \in 1..(Len(s) - Len(sub) + 1) : SubSeq(s, i, i + Len(sub) - 1) = sub

\* String.prototype.startsWith
startsWith(s, prefix) ==
    Len(prefix) <= Len(s) /\ SubSeq(s, 1, Len(prefix)) = prefix

RECURSIVE trimStart(_)
trimStart(s) ==
    IF s # "" /\ IsWhiteSpace(CharAt(s, 1))
    THEN trimStart(SubSeq(s, 2, Len(s)))
    ELSE s

RECURSIVE trimEnd(_)
trimEnd(s) ==
    IF s # "" /\ IsWhiteSpace(CharAt(s, Len(s)))
    THEN trimEnd(SubSeq(s, 1, Len(s) - 1))
    ELSE s

\* String.prototype.trim
trim(s) == trimEnd(trimStart(s))

\* String.prototype.split with a one-character separator: a sequence of
\* strings, <<"">> for the empty string.
RECURSIVE split(_, _)
split(s, sep) ==
    LET hits == {i \in 1..Len(s) : CharAt(s, i) = sep}
    IN  IF hits = {} THEN <<s>>
        ELSE LET i == CHOOSE h \in hits : \A g \in hits : h <= g
             IN  <<SubSeq(s, 1, i - 1)>> \o split(SubSeq(s, i + 1, Len(s)), sep)

\* Array.prototype.join
RECURSIVE join(_, _)
join(parts, sep) ==
    IF Len(parts) = 0 THEN ""
    ELSE IF Len(parts) = 1 THEN parts[1]
    ELSE parts[1] \o sep \o join(Tail(parts), sep)

\* U+2022 BULLET of the source's templates, written in ASCII.
BULLET == "*"

(***************************************************************************)
(* Completions of calls that may throw                                     *)
(***************************************************************************)
NoResult == [script |-> "", talkingPoints |-> ""]

Returned(r) == [threw |-> FALSE, message |-> "", value |-> r]

Threw(msg) == [threw |-> TRUE, message |-> msg, value |-> NoResult]

\* TypeError raised by calling .split on a value that is not a string.
SplitTypeError == "data.keyFeatures.split is not a function"

(***************************************************************************)
(* createPrompt                                                            *)
(***************************************************************************)
createPrompt(data) ==
    "\n"
    \o "Create a demo script for a product with the following details:\n"
    \o "\n"
    \o "Product Name: " \o ToString(data.productName) \o "\n"
    \o "Target Audience: " \o ToString(data.audience) \o "\n"
    \o "Product Description: " \o ToString(data.description) \o "\n"
    \o "Key Features: " \o ToString(data.keyFeatures) \o "\n"
    \o "Pain Points Addressed: " \o ToString(data.painPoints) \o "\n"
    \o "Tone: " \o OrDefault(data.tone, "professional") \o "\n"
    \o "Format: " \o OrDefault(data.format, "problem-solution") \o "\n"
    \o "Template: " \o OrDefault(data.template, "universal") \o "\n"
    \o "Audience Type: " \o OrDefault(data.audienceType, "mixed") \o "\n"
    \o "\n"
    \o "Please provide:\n"
    \o "1. A detailed script with sections including introduction, problem statement, solution overview, key features, benefits, demonstration, and closing.\n"
    \o "2. A condensed version with just the key talking points in bullet format.\n"
    \o "\n"
    \o "Format your response as follows:\n"
    \o "\n"
    \o "## DETAILED_SCRIPT\n"
    \o "[Full detailed script here]\n"
    \o "\n"
    \o "## TALKING_POINTS\n"
    \o "[Bullet points here]\n"

(***************************************************************************)
(* parseScriptResponse and its regular expressions                         *)
(***************************************************************************)
\* The literal the first regular expression starts with.
ScriptPattern == "## DETAILED_SCRIPT"

\* The literal the second regular expression starts with, also the
\* lookahead alternative of the first.
PointsPattern == "## TALKING_POINTS"

\* A literal of an /i regular expression matches at position i of s.
MatchesAt(s, i, lit) ==
    /\ i >= 1
    /\ i + Len(lit) - 1 <= Len(s)
    /\ \A k \in 1..Len(lit) :
          Canonicalize(CharAt(s, i + k - 1)) = Canonicalize(CharAt(lit, k))

\* The position after a greedy \s+ that starts at position i.
RECURSIVE SkipWhiteSpace(_, _)
SkipWhiteSpace(s, i) ==
    IF i <= Len(s) /\ IsWhiteSpace(CharAt(s, i))
    THEN SkipWhiteSpace(s, i + 1)
    ELSE i

\* The positions where `lit\s+` matches: the literal followed by at least
\* one white-space character.
HeadPositions(s, lit) ==
    {i \in 1..Len(s) :
        /\ MatchesAt(s, i, lit)
        /\ i + Len(lit) <= Len(s)
        /\ IsWhiteSpace(CharAt(s, i + Len(lit)))}

Least(S) == CHOOSE i \in S : \A j \in S : i <= j

NoMatch == [matched |-> FALSE, group |-> ""]

\* Variant of scriptMatch whose lookahead is only the end of the text.
scriptMatch_NoLookahead(response) ==
    LET heads == HeadPositions(response, ScriptPattern)
    IN  IF heads = {} THEN NoMatch
        ELSE LET from == SkipWhiteSpace(response, Least(heads) + Len(ScriptPattern))
             IN  [matched |-> TRUE,
                  group |-> SubSeq(response, from, Len(response))]

\* response.match(/## DETAILED_SCRIPT\s+([\s\S]*?)(?=## TALKING_POINTS|$)/i):
\* the leftmost match; its lazy group ends at the first position where the
\* lookahead holds, the end of the text at the latest.
scriptMatch(response) ==
    LET heads == HeadPositions(response, ScriptPattern)
    IN  IF heads = {} THEN NoMatch
        ELSE LET from == SkipWhiteSpace(response, Least(heads) + Len(ScriptPattern))
                 stops == {j \in from..(Len(response) + 1) :
                              \/ j = Len(response) + 1
                              \/ MatchesAt(response, j, PointsPattern)}
             IN  [matched |-> TRUE,
                  group |-> SubSeq(response, from, Least(stops) - 1)]

\* response.match(/## TALKING_POINTS\s+([\s\S]*?)(?=$)/i): the leftmost
\* match; its group runs to the end of the text.
pointsMatch(response) ==
    LET heads == HeadPositions(response, PointsPattern)
    IN  IF heads = {} THEN NoMatch
        ELSE LET from == SkipWhiteSpace(response, Least(heads) + Len(PointsPattern))
             IN  [matched |-> TRUE,
                  group |-> SubSeq(response, from, Len(response))]

\* Variant of FeatureLines that does not trim the segments.
FeatureLines_Untrimmed(keyFeatures, prefix) ==
    LET parts == split(keyFeatures, ",")
    IN  join([k \in 1..Len(parts) |-> prefix \o parts[k]], "\n")

FeatureLines(keyFeatures, prefix) ==
    LET parts == split(keyFeatures, ",")
    IN  join([k \in 1..Len(parts) |-> prefix \o trim(parts[k])], "\n")

FallbackText(data) ==
    BULLET \o " Introduce " \o ToString(data.productName) \o "\n"
    \o BULLET \o " Mention target audience: " \o ToString(data.audience) \o "\n"
    \o BULLET \o " Highlight pain points: " \o ToString(data.painPoints) \o "\n"
    \o BULLET \o " Explain solution: " \o ToString(data.description) \o "\n"
    \o BULLET \o " Demo key features:\n"
    \o FeatureLines(data.keyFeatures.v, "  - ") \o "\n"
    \o BULLET \o " Emphasize benefits\n"
    \o BULLET \o " Provide demonstration\n"
    \o BULLET \o " Close and ask for questions"

\* generateFallbackTalkingPoints: throws when keyFeatures has no split method.
generateFallbackTalkingPoints(data) ==
    IF data.keyFeatures.t # "string"
    THEN [threw |-> TRUE, message |-> SplitTypeError, text |-> ""]
    ELSE [threw |-> FALSE, message |-> "", text |-> FallbackText(data)]

\* The object literal {script: response, talkingPoints: generateFallback...}.
WholeResponseResult(response, data) ==
    LET fb == generateFallbackTalkingPoints(data)
    IN  IF fb.threw THEN Threw(fb.message)
        ELSE Returned([script |-> response, talkingPoints |-> fb.text])

\* Variant of parseScriptResponse that trims the text it returns whole.
parseScriptResponse_TrimsWhole(response, data) ==
    LET sm == scriptMatch(response)
        pm == pointsMatch(response)
        script == IF sm.matched THEN trim(sm.group) ELSE ""
        talkingPoints == IF pm.matched THEN trim(pm.group) ELSE ""
    IN  IF script = "" /\ talkingPoints = ""
        THEN WholeResponseResult(trim(response), data)
        ELSE Returned([script |-> script, talkingPoints |-> talkingPoints])

\* Variant of parseScriptResponse without the both-empty branch.
parseScriptResponse_NoFallback(response, data) ==
    LET sm == scriptMatch(response)
        pm == pointsMatch(response)
    IN  Returned([script |-> IF sm.matched THEN trim(sm.group) ELSE "",
                  talkingPoints |-> IF pm.matched THEN trim(pm.group) ELSE ""])

parseScriptResponse(response, data) ==
    LET sm == scriptMatch(response)
        pm == pointsMatch(response)
        script == IF sm.matched THEN trim(sm.group) ELSE ""
        talkingPoints == IF pm.matched THEN trim(pm.group) ELSE ""
        tryBlock == IF script = "" /\ talkingPoints = ""
                    THEN WholeResponseResult(response, data)
                    ELSE Returned([script |-> script, talkingPoints |-> talkingPoints])
    IN  \* catch (error): the same object literal, evaluated again
        IF tryBlock.threw THEN WholeResponseResult(response, data) ELSE tryBlock

(***************************************************************************)
(* generateMockScript                                                      *)
(***************************************************************************)
MockScriptText(data) ==
    "# " \o ToString(data.productName) \o " Demo Script\n\n## Introduction\nHello and welcome! Today I'm excited to show you "
    \o ToString(data.productName) \o ", which helps " \o ToString(data.audience)
    \o " to solve " \o ToString(data.painPoints) \o ".\n\n## Problem Statement\n"
    \o ToString(data.painPoints) \o "\n\n## Solution Overview\n"
    \o ToString(data.description) \o "\n\n## Key Features\n"
    \o FeatureLines(data.keyFeatures.v, "- ")
    \o "\n\n## Benefits\nBy using " \o ToString(data.productName)
    \o ", you'll be able to:\n- Save time and resources\n- Improve efficiency\n- Enhance your overall experience\n\n## Demonstration\nLet me show you how it works...\n\n## Closing\nThank you for your time today. Any questions?"

MockTalkingPointsText(data) ==
    BULLET \o " Introduce " \o ToString(data.productName)
    \o "\n" \o BULLET \o " Mention target audience: " \o ToString(data.audience)
    \o "\n" \o BULLET \o " Highlight pain points: " \o ToString(data.painPoints)
    \o "\n" \o BULLET \o " Explain solution: " \o ToString(data.description)
    \o "\n" \o BULLET \o " Demo key features:\n"
    \o FeatureLines(data.keyFeatures.v, "  - ")
    \o "\n" \o BULLET \o " Emphasize benefits\n" \o BULLET \o " Provide demonstration\n"
    \o BULLET \o " Close and ask for questions"

generateMockScript(data) ==
    IF data.keyFeatures.t # "string"
    THEN Threw(SplitTypeError)
    ELSE Returned([script |-> MockScriptText(data),
                   talkingPoints |-> MockTalkingPointsText(data)])

(***************************************************************************)
(* State                                                                   *)
(***************************************************************************)
VARIABLES
    env,            \* process.env, read once when the module is loaded
    pc,             \* position of the POST handler
    body,           \* the parsed request body
    adapter,        \* the branch of the switch that was taken
    prompt,         \* the prompt built by the adapter
    upstreamCalls,  \* outbound calls issued for this request, in order
    steps,          \* the steps this request went through, in order
    response,       \* the adapter's local response text
    thrown,         \* the error caught by the inner catch
    result,         \* the handler's local result
    reply,          \* the NextResponse returned
    isGenerating,   \* ScriptGenerator state: a submission is being handled
    error,          \* ScriptGenerator state: null or the message shown
    script,         \* ScriptGenerator state
    talkingPoints,  \* ScriptGenerator state
    viewMode,       \* ScriptGenerator state
    showResult,     \* ScriptGenerator state: the result replaces the form
    inflight,       \* the callAIApi calls that have not settled, in order
    lastCall        \* how the most recent callAIApi call settled

serverVars == <<env, pc, body, adapter, prompt, upstreamCalls, steps,
                response, thrown, result, reply>>

clientVars == <<isGenerating, error, script, talkingPoints, viewMode,
                showResult, inflight, lastCall>>

vars == <<serverVars, clientVars>>

Null == [t |-> "null", v |-> ""]

\* A parsed JSON body: an object with the fields the client reads, null,
\* or a body that is not JSON (response.json() rejects).
JsonObject(e, sc, tp) ==
    [kind |-> "object", error |-> e, script |-> sc, talkingPoints |-> tp]

JsonNull ==
    [kind |-> "null", error |-> Undef, script |-> Undef, talkingPoints |-> Undef]

NotJson ==
    [kind |-> "invalid", error |-> Undef, script |-> Undef,
     talkingPoints |-> Undef]

NoJson ==
    [kind |-> "none", error |-> Undef, script |-> Undef, talkingPoints |-> Undef]

NoCall ==
    [state |-> "none", message |-> "", status |-> 0, json |-> NoJson,
     handled |-> "none"]

\* The component as mounted: the initial values of its useState hooks.
Mounted ==
    /\ isGenerating = FALSE
    /\ error = Null
    /\ script = Str("")
    /\ talkingPoints = Str("")
    /\ viewMode = "detailed"
    /\ showResult = FALSE
    /\ inflight = <<>>
    /\ lastCall = NoCall

(***************************************************************************)
(* Inputs                                                                  *)
(***************************************************************************)
ProviderSettings ==
    {Undef, Str(""), Str("openai"), Str("OpenAI"), Str("anthropic"),
     Str("google"), Str("azure")}

KeySettings == {Undef, Str("sk-test")}

Environments ==
    [LLM_PROVIDER : ProviderSettings, OPENAI_API_KEY : KeySettings,
     ANTHROPIC_API_KEY : KeySettings, GOOGLE_AI_API_KEY : KeySettings]

Bodies ==
    [productName : {Undef, Str(""), Str("Acme CRM")},
     audience : {Undef, Str("sales managers")},
     description : {Str(""), Str("pipeline tool")},
     keyFeatures : {Undef, Str("analytics, mobile"), Str("sso"),
                    Str(" a ,, b"), Num("42")},
     painPoints : {Undef, Num("0"), Str("slow reporting")},
     tone : {Undef, Str("casual")},
     format : {Undef},
     template : {Undef},
     audienceType : {Str("")}]

\* What the upstream service answers: the content of the first choice or
\* content block, which may be absent.
UpstreamContents ==
    {Undef, Str(""), Str("just plain text"),
     Str("## DETAILED_SCRIPT\nFoo\n## TALKING_POINTS\nBar"),
     Str("## DETAILED_SCRIPT\nFoo"),
     Str("## TALKING_POINTS\nBar")}

\* Messages of the errors the provider SDKs reject with.
UpstreamErrors ==
    {"Incorrect API key provided", "invalid x-api-key",
     "API key not valid. Please pass a valid API key.",
     "Rate limit exceeded"}

(***************************************************************************)
(* Module-level configuration                                              *)
(***************************************************************************)
LLM_PROVIDER == OrDefault(env.LLM_PROVIDER, "openai")

\* The three clients: non-null exactly when the key is truthy.
openai == Truthy(env.OPENAI_API_KEY)

anthropic == Truthy(env.ANTHROPIC_API_KEY)

genAI == Truthy(env.GOOGLE_AI_API_KEY)

requiredFields ==
    <<"productName", "audience", "description", "keyFeatures", "painPoints">>

NoReply == [status |-> 0, error |-> "", script |-> "", talkingPoints |-> ""]

\* NextResponse.json({error}, {status})
ErrorReply(status, message) ==
    [status |-> status, error |-> message, script |-> "", talkingPoints |-> ""]

\* NextResponse.json(result)
ResultReply(r) ==
    [status |-> 200, error |-> "", script |-> r.script,
     talkingPoints |-> r.talkingPoints]

NoBody ==
    [productName |-> Undef, audience |-> Undef, description |-> Undef,
     keyFeatures |-> Undef, painPoints |-> Undef, tone |-> Undef,
     format |-> Undef, template |-> Undef, audienceType |-> Undef]

NoError == [message |-> "", origin |-> "none"]

(***************************************************************************)
(* Initial state: the module is loaded, no request has arrived             *)
(***************************************************************************)
Init ==
    /\ env \in Environments
    /\ pc = "idle"
    /\ body = NoBody
    /\ adapter = "none"
    /\ prompt = ""
    /\ upstreamCalls = <<>>
    /\ steps = <<>>
    /\ response = ""
    /\ thrown = NoError
    /\ result = NoResult
    /\ reply = NoReply
    /\ Mounted

(***************************************************************************)
(* POST                                                                    *)
(***************************************************************************)
\* await request.json() delivers the body of a new request; the locals of
\* the previous invocation are gone.
ReceiveRequest ==
    /\ pc \in {"idle", "done"}
    /\ \E b \in Bodies : body' = b
    /\ pc' = "Validate"
    /\ adapter' = "none"
    /\ prompt' = ""
    /\ upstreamCalls' = <<>>
    /\ steps' = <<>>
    /\ response' = ""
    /\ thrown' = NoError
    /\ result' = NoResult
    /\ reply' = NoReply
    /\ UNCHANGED <<clientVars, env>>

\* await request.json() rejects (the payload is not JSON): the outer catch
\* answers 500.
RequestJsonFails ==
    /\ pc \in {"idle", "done"}
    /\ pc' = "done"
    /\ body' = NoBody
    /\ adapter' = "none"
    /\ prompt' = ""
    /\ upstreamCalls' = <<>>
    /\ steps' = <<>>
    /\ response' = ""
    /\ thrown' = NoError
    /\ result' = NoResult
    /\ reply' = ErrorReply(500, "Server error: Unexpected end of JSON input")
    /\ UNCHANGED <<clientVars, env>>

\* Variant of MissingFields that only notices absent fields and lets the
\* empty string through.
MissingFields_OnlyAbsent(b) ==
    SelectSeq(requiredFields, LAMBDA f : b[f] = Undef)

\* The fields the loop over requiredFields finds falsy, in loop order.
MissingFields(b) ==
    SelectSeq(requiredFields, LAMBDA f : ~Truthy(b[f]))

\* The validation loop: the first falsy required field ends the request.
Validate ==
    /\ pc = "Validate"
    /\ steps' = Append(steps, "Validate")
    /\ IF MissingFields(body) # <<>>
       THEN /\ reply' = ErrorReply(400, "Missing required field: "
                                          \o Head(MissingFields(body)))
            /\ pc' = "done"
       ELSE /\ reply' = reply
            /\ pc' = "SelectProvider"
    /\ UNCHANGED <<clientVars, env, body, adapter, prompt, upstreamCalls, response,
                   thrown, result>>

\* switch (LLM_PROVIDER.toLowerCase())
SwitchTarget(name) ==
    CASE name = "openai"    -> "openai"
      [] name = "anthropic" -> "anthropic"
      [] name = "google"    -> "google"
      [] OTHER              -> "mock"

CalleeOf(a) ==
    CASE a = "openai"    -> "generateWithOpenAI"
      [] a = "anthropic" -> "generateWithAnthropic"
      [] a = "google"    -> "generateWithGoogle"
      [] a = "mock"      -> "generateMockScript"

SelectProvider ==
    /\ pc = "SelectProvider"
    /\ steps' = Append(steps, "SelectProvider")
    /\ adapter' = SwitchTarget(toLowerCase(LLM_PROVIDER))
    /\ pc' = CalleeOf(adapter')
    /\ UNCHANGED <<clientVars, env, body, prompt, upstreamCalls, response, thrown,
                   result, reply>>

\* Variant of AdapterEntry that falls back to the mock generator when the
\* client is missing.
AdapterEntry_FallsBackToMock(name, client, message) ==
    /\ pc = name
    /\ steps' = Append(steps, name)
    /\ pc' = IF ~client THEN "generateMockScript" ELSE "createPrompt"
    /\ UNCHANGED <<clientVars, env, body, adapter, prompt, upstreamCalls, response,
                   thrown, result, reply>>

\* Entry of an adapter: without a client it throws, otherwise it goes on to
\* build the prompt.
AdapterEntry(name, client, message) ==
    /\ pc = name
    /\ steps' = Append(steps, name)
    /\ IF ~client
       THEN /\ thrown' = [message |-> message, origin |-> "credential"]
            /\ pc' = "catch"
       ELSE /\ thrown' = thrown
            /\ pc' = "createPrompt"
    /\ UNCHANGED <<clientVars, env, body, adapter, prompt, upstreamCalls, response,
                   result, reply>>

\* The message each adapter throws when its client is null.
KeyNotConfigured(a) ==
    CASE a = "openai"    -> "OpenAI API key not configured"
      [] a = "anthropic" -> "Anthropic API key not configured"
      [] a = "google"    -> "Google AI API key not configured"

generateWithOpenAI ==
    AdapterEntry("generateWithOpenAI", openai, KeyNotConfigured("openai"))

generateWithAnthropic ==
    AdapterEntry("generateWithAnthropic", anthropic,
                 KeyNotConfigured("anthropic"))

generateWithGoogle ==
    AdapterEntry("generateWithGoogle", genAI, KeyNotConfigured("google"))

\* const prompt = createPrompt(data)
BuildPrompt ==
    /\ pc = "createPrompt"
    /\ steps' = Append(steps, "createPrompt")
    /\ prompt' = createPrompt(body)
    /\ pc' = "Invoke"
    /\ UNCHANGED <<clientVars, env, body, adapter, upstreamCalls, response, thrown,
                   result, reply>>

\* The adapter issues its one call to the upstream service and awaits it.
Invoke ==
    /\ pc = "Invoke"
    /\ steps' = Append(steps, "Invoke")
    /\ upstreamCalls' = Append(upstreamCalls, adapter)
    /\ pc' = "await"
    /\ UNCHANGED <<clientVars, env, body, adapter, prompt, response, thrown, result,
                   reply>>

\* The content the adapter reads from a fulfilled call: OpenAI and Anthropic
\* replace absent content by '', Google's text() is a string.
ContentsOf(a) ==
    IF a = "google" THEN {c \in UpstreamContents : c.t = "string"}
    ELSE UpstreamContents

UpstreamFulfils ==
    /\ pc = "await"
    /\ \E c \in ContentsOf(adapter) : response' = OrDefault(c, "")
    /\ pc' = "parseScriptResponse"
    /\ UNCHANGED <<clientVars, env, body, adapter, prompt, upstreamCalls, steps, thrown,
                   result, reply>>

\* Variant of UpstreamRejects that hands the failed call to the parser.
UpstreamRejects_ParsesAnyway ==
    /\ pc = "await"
    /\ \E m \in UpstreamErrors :
          thrown' = [message |-> m, origin |-> "upstream"]
    /\ pc' = "parseScriptResponse"
    /\ UNCHANGED <<clientVars, env, body, adapter, prompt, upstreamCalls, steps,
                   response, result, reply>>

\* Variant of UpstreamRejects that issues the call again.
UpstreamRejects_Retries ==
    /\ pc = "await"
    /\ pc' = "Invoke"
    /\ UNCHANGED <<clientVars, env, body, adapter, prompt, upstreamCalls, steps,
                   response, thrown, result, reply>>

UpstreamRejects ==
    /\ pc = "await"
    /\ \E m \in UpstreamErrors :
          thrown' = [message |-> m, origin |-> "upstream"]
    /\ pc' = "catch"
    /\ UNCHANGED <<clientVars, env, body, adapter, prompt, upstreamCalls, steps,
                   response, result, reply>>

\* return parseScriptResponse(response, data)
Parse ==
    /\ pc = "parseScriptResponse"
    /\ steps' = Append(steps, "parseScriptResponse")
    /\ LET r == parseScriptResponse(response, body)
       IN  IF r.threw
           THEN /\ thrown' = [message |-> r.message, origin |-> "parse"]
                /\ result' = result
                /\ pc' = "catch"
           ELSE /\ thrown' = thrown
                /\ result' = r.value
                /\ pc' = "return"
    /\ UNCHANGED <<clientVars, env, body, adapter, prompt, upstreamCalls, response,
                   reply>>

\* default: result = generateMockScript(body)
MockGenerate ==
    /\ pc = "generateMockScript"
    /\ steps' = Append(steps, "generateMockScript")
    /\ LET r == generateMockScript(body)
       IN  IF r.threw
           THEN /\ thrown' = [message |-> r.message, origin |-> "mock"]
                /\ result' = result
                /\ pc' = "catch"
           ELSE /\ thrown' = thrown
                /\ result' = r.value
                /\ pc' = "return"
    /\ UNCHANGED <<clientVars, env, body, adapter, prompt, upstreamCalls, response,
                   reply>>

\* Variant of CatchReply without the API-key branch.
CatchReply_AlwaysGeneric(provider, message) ==
    ErrorReply(500, "Error generating script with " \o provider
                       \o ": " \o message)

\* The inner catch: 401 when the message mentions an API key, else 500.
CatchReply(provider, message) ==
    IF includes(message, "API key")
    THEN ErrorReply(401, provider \o " API error: " \o message)
    ELSE ErrorReply(500, "Error generating script with " \o provider
                            \o ": " \o message)

CatchLLMError ==
    /\ pc = "catch"
    /\ steps' = Append(steps, "catch")
    /\ reply' = CatchReply(LLM_PROVIDER, thrown.message)
    /\ pc' = "done"
    /\ UNCHANGED <<clientVars, env, body, adapter, prompt, upstreamCalls, response,
                   thrown, result>>

\* return NextResponse.json(result)
Return ==
    /\ pc = "return"
    /\ steps' = Append(steps, "Return")
    /\ reply' = ResultReply(result)
    /\ pc' = "done"
    /\ UNCHANGED <<clientVars, env, body, adapter, prompt, upstreamCalls, response,
                   thrown, result>>

Next ==
    \/ ReceiveRequest
    \/ RequestJsonFails
    \/ Validate
    \/ SelectProvider
    \/ generateWithOpenAI
    \/ generateWithAnthropic
    \/ generateWithGoogle
    \/ BuildPrompt
    \/ Invoke
    \/ UpstreamFulfils
    \/ UpstreamRejects
    \/ Parse
    \/ MockGenerate
    \/ CatchLLMError
    \/ Return

Spec == Init /\ [][Next]_vars

(***************************************************************************)
(* The parser on its own: the handler from the moment the upstream call    *)
(* has been fulfilled, for a larger set of response texts                  *)
(***************************************************************************)
MaxPieces == 4

MaxSectionPieces == 2

Pieces ==
    {"## DETAILED_SCRIPT\n", "## detailed_script", "## TALKING_POINTS\n",
     "## Talking_Points", "Foo", "- bar", " ", "\n"}

\* All concatenations of at most n pieces.
RECURSIVE Texts(_)
Texts(n) ==
    IF n = 0 THEN {""}
    ELSE LET T == Texts(n - 1) IN T \cup {t \o q : t \in T, q \in Pieces}

\* A marker occurs in a text, in any letter case.
ContainsMarker(s, marker) == \E i \in 1..Len(s) : MatchesAt(s, i, marker)

\* The end of the line that starts at position i.
RECURSIVE LineEnd(_, _)
LineEnd(s, i) ==
    IF i > Len(s) \/ CharAt(s, i) = "\n" THEN i - 1 ELSE LineEnd(s, i + 1)

\* The elements of a set of numbers in increasing order.
RECURSIVE Ascending(_)
Ascending(S) ==
    IF S = {} THEN <<>> ELSE <<Least(S)>> \o Ascending(S \ {Least(S)})

\* The lines of a prompt that start with '## ', in order: the section
\* markers the prompt asks the provider for.
PromptMarkers(p) ==
    LET starts == {i \in 1..Len(p) :
                      /\ CharAt(p, i) = "#"
                      /\ i = 1 \/ CharAt(p, i - 1) = "\n"
                      /\ i + 2 <= Len(p)
                      /\ SubSeq(p, i, i + 2) = "## "}
        order == Ascending(starts)
    IN  [k \in 1..Len(order) |-> SubSeq(p, order[k], LineEnd(p, order[k]))]

\* Neither of the markers the parser searches for occurs in the text.
MarkerFree(s) ==
    ~ContainsMarker(s, ScriptPattern) /\ ~ContainsMarker(s, PointsPattern)

\* Non-empty, trimmed texts without a marker.
Sections ==
    {t \in Texts(MaxSectionPieces) : t # "" /\ trim(t) = t /\ MarkerFree(t)}

\* '<script marker>\nS\n<talking-points marker>\nP'
RoundTripText(markers, S, P) ==
    markers[1] \o "\n" \o S \o "\n" \o markers[2] \o "\n" \o P

RawTexts(markers) ==
    Texts(MaxPieces)
    \cup {RoundTripText(markers, S, P) : S \in Sections, P \in Sections}

ParseBodies ==
    {b \in Bodies :
        /\ b.productName = Str("Acme CRM")
        /\ b.audience = Str("sales managers")
        /\ b.description = Str("pipeline tool")
        /\ b.keyFeatures \in {Str("analytics, mobile"), Num("42")}
        /\ b.painPoints = Str("slow reporting")
        /\ b.tone = Undef}

ParseInit ==
    /\ env = [LLM_PROVIDER |-> Str("openai"), OPENAI_API_KEY |-> Str("sk-test"),
              ANTHROPIC_API_KEY |-> Undef, GOOGLE_AI_API_KEY |-> Undef]
    /\ pc = "parseScriptResponse"
    /\ body \in ParseBodies
    /\ adapter = "openai"
    /\ prompt = createPrompt(body)
    /\ upstreamCalls = <<"openai">>
    /\ steps = <<"Validate", "SelectProvider", "generateWithOpenAI",
                 "createPrompt", "Invoke">>
    /\ response \in RawTexts(PromptMarkers(prompt))
    /\ thrown = NoError
    /\ result = NoResult
    /\ reply = NoReply
    /\ Mounted

ParseNext ==
    \/ Parse
    \/ CatchLLMError
    \/ Return

ParseSpec == ParseInit /\ [][ParseNext]_vars

(***************************************************************************)
(* callAIApi and the ScriptGenerator component                             *)
(* (src/components/script-generator.tsx).  The form fields are not part of *)
(* the state: what the server answers is drawn from HttpResponses.         *)
(***************************************************************************)
\* What NextResponse.json(...) of the route puts on the wire.
AsHttp(r) ==
    [status |-> r.status, contentType |-> "application/json",
     json |-> IF r.status = 200
              THEN JsonObject(Undef, Str(r.script), Str(r.talkingPoints))
              ELSE JsonObject(Str(r.error), Undef, Undef)]

\* Replies of the route, and answers that do not come from the route: an
\* HTML error page, a non-JSON body, JSON without an error field, JSON null.
HttpResponses ==
    {AsHttp(ErrorReply(400, "Missing required field: productName")),
     AsHttp(CatchReply("openai", KeyNotConfigured("openai"))),
     AsHttp(CatchReply("openai", "Rate limit exceeded")),
     AsHttp(ErrorReply(500, "Server error: Unexpected end of JSON input")),
     AsHttp(ResultReply([script |-> "Foo", talkingPoints |-> "Bar"])),
     AsHttp(ResultReply([script |-> "Hello",
                         talkingPoints |-> "* Demo key features:\n  - sso"])),
     AsHttp(ResultReply([script |-> "", talkingPoints |-> "Bar"]))}
    \cup
    {[status |-> 500, contentType |-> "text/html; charset=utf-8", json |-> NotJson],
     [status |-> 502, contentType |-> "", json |-> NotJson],
     [status |-> 404, contentType |-> "application/json",
      json |-> JsonObject(Undef, Undef, Undef)],
     [status |-> 200, contentType |-> "text/plain", json |-> NotJson],
     [status |-> 200, contentType |-> "application/json", json |-> JsonNull]}

\* response.ok
ok(h) == h.status \in 200..299

\* The message of the Error the outer catch of callAIApi rethrows.
OuterMessage(message) ==
    IF message # "" THEN message
    ELSE "Failed to generate script. Please try again."

\* What the statements inside the inner try of the error branch throw:
\* response.json() rejecting, reading .error of null, or the explicit
\* throw new Error(errorData.error || 'Failed to generate script').
ThrownInErrorTry(json) ==
    CASE json.kind = "invalid" -> "Unexpected token < in JSON at position 0"
      [] json.kind = "null" ->
            "Cannot read properties of null (reading 'error')"
      [] OTHER -> OrDefault(json.error, "Failed to generate script")

\* The error branch: everything thrown inside the try, the explicit throw
\* included, is caught by catch (parseError) and replaced.
ErrorBranchMessage(json) ==
    LET inTry == Threw(ThrownInErrorTry(json))
    IN  IF inTry.threw
        THEN "Server error: Could not process the response"
        ELSE inTry.message

Remove(seq, i) == SubSeq(seq, 1, i - 1) \o SubSeq(seq, i + 1, Len(seq))

\* The submit button is rendered (the form is shown) and not disabled.
SubmitEnabled_FormShown == ~showResult

SubmitEnabled == ~showResult /\ ~isGenerating

\* handleSubmit up to its await: the state updates and the fetch.
handleSubmit ==
    /\ SubmitEnabled
    /\ isGenerating' = TRUE
    /\ error' = Null
    /\ inflight' = Append(inflight, [stage |-> "fetch", status |-> 0,
                                     contentType |-> "", json |-> NoJson])
    /\ lastCall' = [state |-> "pending", message |-> "", status |-> 0,
                    json |-> NoJson, handled |-> "none"]
    /\ UNCHANGED <<serverVars, script, talkingPoints, viewMode, showResult>>

\* callAIApi rejects with Error(message); handleSubmit's catch and finally.
CallRejects(i, message) ==
    /\ error' = Str(OuterMessage(message))
    /\ isGenerating' = FALSE
    /\ inflight' = Remove(inflight, i)
    /\ lastCall' = [state |-> "rejected", message |-> OuterMessage(message),
                    status |-> inflight[i].status, json |-> inflight[i].json,
                    handled |-> "failure"]
    /\ UNCHANGED <<serverVars, script, talkingPoints, viewMode, showResult>>

\* callAIApi resolves with the parsed body; handleSubmit's try and finally.
\* Reading result.script of null throws, which its catch turns into error.
CallResolves(i, json) ==
    /\ IF json.kind = "null"
       THEN /\ error' = Str("Cannot read properties of null (reading 'script')")
            /\ UNCHANGED <<script, talkingPoints, showResult>>
       ELSE /\ script' = json.script
            /\ talkingPoints' = json.talkingPoints
            /\ showResult' = TRUE
            /\ error' = error
    /\ isGenerating' = FALSE
    /\ inflight' = Remove(inflight, i)
    /\ lastCall' = [state |-> "fulfilled", message |-> "",
                    status |-> inflight[i].status, json |-> json,
                    handled |-> IF json.kind = "null" THEN "failure"
                                ELSE "success"]
    /\ UNCHANGED <<serverVars, viewMode>>

\* fetch rejects (no answer from the network).
FetchRejects ==
    \E i \in 1..Len(inflight) :
       /\ inflight[i].stage = "fetch"
       /\ CallRejects(i, "Failed to fetch")

\* fetch resolves: a non-OK HTML answer is rejected at once, otherwise the
\* body is read in the error branch or in the success branch.
FetchResolves ==
    \E i \in 1..Len(inflight), h \in HttpResponses :
       /\ inflight[i].stage = "fetch"
       /\ IF ~ok(h) /\ h.contentType # "" /\ includes(h.contentType, "text/html")
          THEN /\ inflight' = [inflight EXCEPT ![i] =
                                 [stage |-> "html", status |-> h.status,
                                  contentType |-> h.contentType,
                                  json |-> h.json]]
          ELSE /\ inflight' = [inflight EXCEPT ![i] =
                                 [stage |-> IF ok(h) THEN "okJson"
                                            ELSE "errorJson",
                                  status |-> h.status,
                                  contentType |-> h.contentType,
                                  json |-> h.json]]
       /\ UNCHANGED <<serverVars, isGenerating, error, script, talkingPoints,
                      viewMode, showResult, lastCall>>

\* The throw for an HTML error page reaches the outer catch.
HtmlErrorRejects ==
    \E i \in 1..Len(inflight) :
       /\ inflight[i].stage = "html"
       /\ CallRejects(i, "Server error: The API returned an HTML error page instead of JSON")

\* await response.json() of the error branch settles.
ErrorJsonSettles ==
    \E i \in 1..Len(inflight) :
       /\ inflight[i].stage = "errorJson"
       /\ CallRejects(i, ErrorBranchMessage(inflight[i].json))

\* await response.json() of the success branch settles.
OkJsonSettles ==
    \E i \in 1..Len(inflight) :
       /\ inflight[i].stage = "okJson"
       /\ IF inflight[i].json.kind = "invalid"
          THEN CallRejects(i, "Invalid response format from server")
          ELSE CallResolves(i, inflight[i].json)

\* The two view buttons of the result page.
SetViewMode ==
    /\ showResult
    /\ \E m \in {"detailed", "talking-points"} : viewMode' = m
    /\ UNCHANGED <<serverVars, isGenerating, error, script, talkingPoints,
                   showResult, inflight, lastCall>>

\* 'Back to Editor'
BackToEditor ==
    /\ showResult
    /\ showResult' = FALSE
    /\ UNCHANGED <<serverVars, isGenerating, error, script, talkingPoints,
                   viewMode, inflight, lastCall>>

\* The page on its own: the server is whatever answers the fetch.
ClientInit ==
    /\ env = [LLM_PROVIDER |-> Undef, OPENAI_API_KEY |-> Undef,
              ANTHROPIC_API_KEY |-> Undef, GOOGLE_AI_API_KEY |-> Undef]
    /\ pc = "idle"
    /\ body = NoBody
    /\ adapter = "none"
    /\ prompt = ""
    /\ upstreamCalls = <<>>
    /\ steps = <<>>
    /\ response = ""
    /\ thrown = NoError
    /\ result = NoResult
    /\ reply = NoReply
    /\ Mounted

ClientNext ==
    \/ handleSubmit
    \/ FetchRejects
    \/ FetchResolves
    \/ HtmlErrorRejects
    \/ ErrorJsonSettles
    \/ OkJsonSettles
    \/ SetViewMode
    \/ BackToEditor

ClientSpec == ClientInit /\ [][ClientNext]_vars

(***************************************************************************)
(* Vocabulary of the properties                                            *)
(***************************************************************************)
RequiredSet == {requiredFields[i] : i \in 1..Len(requiredFields)}

Recognised == {"openai", "anthropic", "google"}

\* The request went through the given step.
Ran(step) == \E i \in 1..Len(steps) : steps[i] = step

\* The five required fields are non-empty strings.
ValidRequest(b) ==
    \A f \in RequiredSet : b[f].t = "string" /\ b[f].v # ""

\* At least one required field is absent or the empty string.
MissingOrEmpty(b) ==
    \E f \in RequiredSet : b[f] = Undef \/ b[f] = Str("")

\* The selector is unset, or set to a name that is not a recognised one.
SelectorUnsetOrUnknown ==
    \/ env.LLM_PROVIDER = Undef
    \/ toLowerCase(env.LLM_PROVIDER.v) \notin Recognised

\* The selector is set to a recognised name (in any letter case).
SelectorRecognised ==
    /\ env.LLM_PROVIDER.t = "string"
    /\ toLowerCase(env.LLM_PROVIDER.v) \in Recognised

\* The credential of the provider the selector names is configured.
CredentialConfigured ==
    CASE toLowerCase(env.LLM_PROVIDER.v) = "openai" -> Truthy(env.OPENAI_API_KEY)
      [] toLowerCase(env.LLM_PROVIDER.v) = "anthropic" -> Truthy(env.ANTHROPIC_API_KEY)
      [] toLowerCase(env.LLM_PROVIDER.v) = "google" -> Truthy(env.GOOGLE_AI_API_KEY)
      [] OTHER -> FALSE

(***************************************************************************)
(* C1                                                                      *)
(***************************************************************************)
\* C1: a valid request handled while the provider selector is unset or
\* names no recognised provider ends with a 200 reply produced by the mock
\* generator, whose script and talkingPoints both contain the productName.
C1_UnsetOrUnknownSelectorYieldsMock ==
    (pc = "done" /\ Ran("Validate") /\ ValidRequest(body)
        /\ SelectorUnsetOrUnknown)
    => /\ reply.status = 200
       /\ Ran("generateMockScript")
       /\ upstreamCalls = <<>>
       /\ includes(reply.script, body.productName.v)
       /\ includes(reply.talkingPoints, body.productName.v)

(***************************************************************************)
(* C2                                                                      *)
(***************************************************************************)
\* C2: a request with a required field missing or empty is answered 400
\* with a message naming a required field the body lacks; validation is the
\* only step it goes through: no adapter (mock included) is entered, no
\* prompt is built and no upstream call is made, whatever the environment.
C2_MissingFieldRejected ==
    (Ran("Validate") /\ MissingOrEmpty(body))
    => /\ pc = "done"
       /\ reply.status = 400
       /\ \E f \in RequiredSet :
             /\ ~Truthy(body[f])
             /\ reply.error = "Missing required field: " \o f
       /\ steps = <<"Validate">>
       /\ adapter = "none"
       /\ prompt = ""
       /\ upstreamCalls = <<>>

C2_Witness ==
    /\ pc = "done"
    /\ Ran("Validate")
    /\ MissingOrEmpty(body)
    /\ body.productName = Str("Acme CRM")
    /\ env.LLM_PROVIDER = Str("openai")
    /\ openai
    /\ reply.status = 400

MissingCredentialStatus(a) == CatchReply(LLM_PROVIDER, KeyNotConfigured(a)).status

\* C4 as stated: a failure of an attempted upstream call is never reported
\* with the status a missing credential is reported with.
C4_UpstreamNeverClassifiedAsMissingCredential ==
    (pc = "done" /\ thrown.origin = "upstream")
    => \A a \in Recognised : reply.status # MissingCredentialStatus(a)

\* C4 as amended: a missing credential is reported with status 401; a
\* rejected upstream call is reported with status 401 when its message
\* contains 'API key' and with status 500 otherwise, so it is told apart
\* from a missing credential exactly when its message does not mention an
\* API key.
C4_ClassifiedByMessage ==
    pc = "done" =>
       /\ thrown.origin = "credential" =>
             /\ reply.status = 401
             /\ reply.error = LLM_PROVIDER \o " API error: " \o thrown.message
       /\ thrown.origin = "upstream" =>
             /\ includes(thrown.message, "API key") =>
                   /\ reply.status = 401
                   /\ reply.error = LLM_PROVIDER \o " API error: " \o thrown.message
             /\ ~includes(thrown.message, "API key") =>
                   /\ reply.status = 500
                   /\ reply.error = "Error generating script with "
                                       \o LLM_PROVIDER \o ": " \o thrown.message

C4_Witness ==
    /\ pc = "done"
    /\ thrown = [message |-> "invalid x-api-key", origin |-> "upstream"]
    /\ adapter = "anthropic"
    /\ reply.status = 500

(***************************************************************************)
(* C5                                                                      *)
(***************************************************************************)
\* C5: a request issues at most one upstream call; once that call has been
\* rejected the request only reports the error: the call list stays the one
\* call to the configured provider, neither the parser nor the mock
\* generator runs, no result is produced, and the reply is an error naming
\* the provider.
C5_OneCallNoRecovery ==
    /\ Len(upstreamCalls) <= 1
    /\ thrown.origin = "upstream" =>
          /\ upstreamCalls = <<adapter>>
          /\ adapter = toLowerCase(LLM_PROVIDER)
          /\ pc \in {"catch", "done"}
          /\ ~Ran("generateMockScript")
          /\ ~Ran("parseScriptResponse")
          /\ result = NoResult
          /\ pc = "done" =>
                /\ reply.status \in {401, 500}
                /\ includes(reply.error, LLM_PROVIDER)
                /\ includes(reply.error, thrown.message)
                /\ reply.script = "" /\ reply.talkingPoints = ""

C5_Witness ==
    /\ pc = "done"
    /\ thrown = [message |-> "Rate limit exceeded", origin |-> "upstream"]
    /\ upstreamCalls = <<"google">>
    /\ reply.status = 500

(***************************************************************************)
(* C6                                                                      *)
(***************************************************************************)
\* C6: the two section markers the prompt asks for are the literals the
\* parser's regular expressions search for, and parsing
\* '<script marker>\nS\n<talking-points marker>\nP' for non-empty, trimmed,
\* marker-free S and P returns exactly {script: S, talkingPoints: P}.
C6_MarkersRoundTrip ==
    Ran("parseScriptResponse") =>
       LET markers == PromptMarkers(prompt)
       IN  /\ markers = <<ScriptPattern, PointsPattern>>
           /\ startsWith(response, markers[1] \o "\n") =>
                 \A S \in Sections, P \in Sections :
                    response = RoundTripText(markers, S, P)
                    => /\ thrown.origin = "none"
                       /\ result = [script |-> S, talkingPoints |-> P]

C6_Witness ==
    /\ pc = "return"
    /\ response = "## DETAILED_SCRIPT\nFoo- bar\n## TALKING_POINTS\n- bar"
    /\ result = [script |-> "Foo- bar", talkingPoints |-> "- bar"]

(***************************************************************************)
(* C7                                                                      *)
(***************************************************************************)
\* C7: for a response text containing neither marker (the empty text
\* included) and a valid request, the parser returns the whole text,
\* unchanged, as script and the fallback synthesized from the request as
\* talkingPoints, which is not empty and contains the productName.
C7_NoMarkerWholeTextAndFallback ==
    (Ran("parseScriptResponse") /\ ValidRequest(body)
        /\ MarkerFree(response))
    => /\ thrown.origin = "none"
       /\ result.script = response
       /\ result.talkingPoints = FallbackText(body)
       /\ result.talkingPoints # ""
       /\ includes(result.talkingPoints, body.productName.v)

C7_Witness ==
    /\ pc = "return"
    /\ ValidRequest(body)
    /\ response = " Foo\n"
    /\ result.script = " Foo\n"
    /\ includes(result.talkingPoints, "Introduce Acme CRM")

(***************************************************************************)
(* C8                                                                      *)
(***************************************************************************)
\* C8: when the response text contains the script marker and not the
\* talking-points marker, the talkingPoints returned for a valid request is
\* the fallback synthesized from the request, never the empty string.
C8_OnlyScriptMarkerGetsFallback ==
    (Ran("parseScriptResponse") /\ ValidRequest(body)
        /\ ContainsMarker(response, ScriptPattern)
        /\ ~ContainsMarker(response, PointsPattern))
    => /\ thrown.origin = "none"
       /\ result.talkingPoints = FallbackText(body)
       /\ result.talkingPoints # ""

(***************************************************************************)
(* C9                                                                      *)
(***************************************************************************)
\* C9: a 200 reply never has both script and talkingPoints empty, on any
\* provider path and for any upstream content, absent or empty included.
C9_NeverBothEmpty ==
    (pc = "done" /\ reply.status = 200)
    => ~(reply.script = "" /\ reply.talkingPoints = "")

C9_Witness ==
    /\ pc = "done"
    /\ reply.status = 200
    /\ Ran("parseScriptResponse")
    /\ response = ""
    /\ reply.script = ""
    /\ reply.talkingPoints # ""

(***************************************************************************)
(* C10                                                                     *)
(***************************************************************************)
\* C10: for a request that passed validation the parser never raises: once
\* the upstream call has been fulfilled and the parser has run, no error
\* was thrown and the request ends with a 200 reply.
C10_ParseNeverRaises ==
    (Ran("parseScriptResponse") /\ MissingFields(body) = <<>>)
    => /\ thrown.origin = "none"
       /\ pc = "done" => reply.status = 200

(***************************************************************************)
(* C11                                                                     *)
(***************************************************************************)
\* The lines of a text that are feature bullets: those starting '  - '.
BulletLines(text) ==
    SelectSeq(split(text, "\n"), LAMBDA l : startsWith(l, "  - "))

\* C11: on the mock path, for a valid request, the feature bullet lines of
\* talkingPoints are, in order, one per comma-separated segment of
\* keyFeatures, each '  - ' followed by the trimmed segment.
C11_MockFeatureBullets ==
    (pc = "done" /\ Ran("generateMockScript") /\ ValidRequest(body))
    => LET segments == split(body.keyFeatures.v, ",")
       IN  /\ reply.status = 200
           /\ BulletLines(reply.talkingPoints)
                 = [k \in 1..Len(segments) |-> "  - " \o trim(segments[k])]

C11_Witness ==
    /\ pc = "done"
    /\ Ran("generateMockScript")
    /\ body.keyFeatures = Str("analytics, mobile")
    /\ BulletLines(reply.talkingPoints) = <<"  - analytics", "  - mobile">>

(***************************************************************************)
(* C12                                                                     *)
(***************************************************************************)
\* The steps of a request dispatched to adapter a, in program order.
StepOrder(a) ==
    IF a = "none" THEN <<"Validate">>
    ELSE IF a = "mock"
    THEN <<"Validate", "SelectProvider", "generateMockScript", "Return">>
    ELSE <<"Validate", "SelectProvider", CalleeOf(a), "createPrompt",
           "Invoke", "parseScriptResponse", "Return">>

IsPrefix(p, q) == Len(p) <= Len(q) /\ SubSeq(q, 1, Len(p)) = p

\* The steps taken, without the final error-reporting step.
StepsBeforeCatch ==
    IF steps # <<>> /\ steps[Len(steps)] = "catch"
    THEN SubSeq(steps, 1, Len(steps) - 1)
    ELSE steps

\* Steps run in program order; Parse runs only after a fulfilled call; a
\* failure is followed by nothing but the error reply.
OrderedAndFailStop ==
    /\ IsPrefix(StepsBeforeCatch, StepOrder(adapter))
    /\ Ran("Invoke") => prompt = createPrompt(body)
    /\ Ran("parseScriptResponse") =>
          /\ Ran("Invoke")
          /\ thrown.origin # "upstream"
    /\ thrown.origin # "none" =>
          /\ pc \in {"catch", "done"}
          /\ ~Ran("Return")
          /\ result = NoResult
    /\ Ran("catch") =>
          /\ pc = "done"
          /\ thrown.origin # "none"
          /\ reply.status \in {401, 500}
    /\ (pc = "done" /\ reply.status = 400) => steps = <<"Validate">>

\* C12 as stated: on a recognised provider the steps run in order and fail
\* stop, and whenever the adapter has decided that the call fails (missing
\* credential or rejected call) the prompt had been built before.
C12_PromptBuiltBeforeOutcome ==
    adapter \in Recognised =>
       /\ OrderedAndFailStop
       /\ thrown.origin \in {"credential", "upstream"} =>
             /\ Ran("createPrompt")
             /\ prompt = createPrompt(body)

\* C12 as amended: on a recognised provider the steps run in the order
\* Validate, SelectProvider, the adapter's credential check, BuildPrompt,
\* Invoke, Parse, Return and fail stop; a missing credential is decided
\* before any prompt is built, and the prompt is built before the upstream
\* call is issued.
C12_CredentialCheckThenPrompt ==
    adapter \in Recognised =>
       /\ OrderedAndFailStop
       /\ thrown.origin = "credential" =>
             /\ steps \in {<<"Validate", "SelectProvider", CalleeOf(adapter)>>,
                           <<"Validate", "SelectProvider", CalleeOf(adapter),
                             "catch">>}
             /\ prompt = ""
             /\ upstreamCalls = <<>>
       /\ upstreamCalls # <<>> =>
             /\ Ran("createPrompt")
             /\ prompt = createPrompt(body)

C12_Witness ==
    /\ pc = "done"
    /\ adapter = "anthropic"
    /\ steps = <<"Validate", "SelectProvider", "generateWithAnthropic",
                 "createPrompt", "Invoke", "parseScriptResponse", "Return">>
    /\ reply.status = 200

(***************************************************************************)
(* C13                                                                     *)
(***************************************************************************)
\* The talking-points marker is found and the script marker occurs after it.
PointsBeforeScript(text) ==
    /\ HeadPositions(text, PointsPattern) # {}
    /\ \E j \in 1..Len(text) :
          /\ j > Least(HeadPositions(text, PointsPattern))
          /\ MatchesAt(text, j, ScriptPattern)

\* C13: when the talking-points marker occurs before the script marker, the
\* extracted talkingPoints stops at the script marker: it contains neither
\* that marker nor the script section that follows it.
C13_PointsStopAtScriptMarker ==
    (Ran("parseScriptResponse") /\ ValidRequest(body)
        /\ PointsBeforeScript(response))
    => /\ thrown.origin = "none"
       /\ ~ContainsMarker(result.talkingPoints, ScriptPattern)
       /\ result.script # "" => ~includes(result.talkingPoints, result.script)

(***************************************************************************)
(* The page: callAIApi and the ScriptGenerator component (ClientSpec)      *)
(***************************************************************************)
\* The last call was answered with a non-OK status and a body that parses as
\* a JSON object, not served as an HTML page.
NonOkJsonAnswer ==
    /\ lastCall.state = "rejected"
    /\ lastCall.status # 0
    /\ lastCall.status \notin 200..299
    /\ lastCall.json.kind = "object"

GenericMessage == "Server error: Could not process the response"

\* C14: when the server answers with a non-OK status and a JSON body,
\* callAIApi rejects with the body's error text, or with 'Failed to generate
\* script' when the body has no error field; the generic message 'Server
\* error: Could not process the response' is produced only when the body
\* cannot be parsed as JSON.
C14_ErrorTextOfBodySurfaced ==
    /\ NonOkJsonAnswer =>
          lastCall.message = OrDefault(lastCall.json.error,
                                       "Failed to generate script")
    /\ (lastCall.state = "rejected" /\ lastCall.message = GenericMessage) =>
          lastCall.json.kind = "invalid"

\* C15: under any sequence of submissions and completions, isGenerating is
\* true whenever a request started by handleSubmit is in flight, at most one
\* such request is in flight at a time, and once the request has settled
\* isGenerating is false again, with error set when it failed and showResult
\* set only when it succeeded.
C15_OneRequestInFlight ==
    /\ Len(inflight) <= 1
    /\ inflight # <<>> => isGenerating /\ lastCall.state = "pending"
    /\ lastCall.state \in {"rejected", "fulfilled"} =>
          inflight = <<>> /\ ~isGenerating
    /\ lastCall.handled = "failure" =>
          /\ error.t = "string"
          /\ error.v # ""
          /\ ~showResult
    /\ showResult => lastCall.handled = "success" /\ error = Null

\* A second submission, made after a successful one and 'Back to Editor',
\* has failed: the earlier script is still held, the error is shown.
C15_Witness ==
    /\ lastCall.handled = "failure"
    /\ script # Str("")
    /\ error # Null
    /\ ~isGenerating
    /\ inflight = <<>>

====
